---- MODULE Spec2Model ----
(***************************************************************************)
(* Receding-horizon optimal code selection for a non-ideal DAC:            *)
(* MPC.get_codes (integer encoding, LM/lin_method_mpc.py) and              *)
(* MPC_BIN.get_codes (binary one-hot encoding, LM/lin_method_mpc_bin.py).  *)
(*                                                                         *)
(* Numbers.  The scaled domain (after q_scaling) is kept in fixed point,   *)
(* in units of half an LSB: the scaled value v is the integer 2*v, so the  *)
(* scaled level of code c in an ideal staircase is 2*c and a reference     *)
(* half-way between two codes is an odd integer.  Physical inputs are      *)
(* integers in units in which Qstep is 2 or 1, so that the division of     *)
(* q_scaling is exact.  The plant is of order 1 (x_dim = 1) with integer   *)
(* A, B, C, D, so states and errors are integers in half LSBs and squared  *)
(* errors integers in quarter LSB^2.                                       *)
(*                                                                         *)
(* Solver.  gurobipy is not part of the repository.  m.optimize() is       *)
(* modelled by its contract: it ends either with a global minimiser of     *)
(* the problem the code built (status OPTIMAL), any one of them when       *)
(* several tie, or without a solution.  The values it reports for integer  *)
(* and binary variables are floats within the integrality tolerance of an  *)
(* integer: a float is the pair <<k, d>>, meaning k + d*eps with           *)
(* d \in {-1, 0, 1} and 0 < eps <= IntFeasTol.                             *)
(***************************************************************************)
EXTENDS Integers, Sequences, FiniteSets, TLC

VARIABLES inp, run, inp2, twin

vars == <<inp, run, inp2, twin>>

---------------------------------------------------------------------------
(* Bounds of the model *)

(* The longest horizon N_PRED. *)
MaxN == 2

(* The most iterations of the loop: the reference has up to N_PRED +       *)
(* MaxIter samples.                                                        *)
MaxIter == 2

NbSet == {2}

QstepSet == {2}

QModels == {1, 2}

Encodings == {"INT", "BIN"}

(* Plants (A, B, C, D) of order 1: the "identity plant" of the spec's      *)
(* scenarios (no feed-through) and an integrator with feed-through.        *)
PlantSet == { [A |-> 0, B |-> 1, C |-> 1, D |-> 0],
              [A |-> 1, B |-> 1, C |-> 1, D |-> 1] }

---------------------------------------------------------------------------
(* Helpers *)

Abs(x) == IF x < 0 THEN -x ELSE x

NumCodes(Nb) == 2^Nb

Codes(Nb) == 0 .. (2^Nb - 1)

MinOf(S) == CHOOSE m \in S : \A k \in S : m <= k

Last(s) == s[Len(s)]

---------------------------------------------------------------------------
(* Inputs of a call *)

(* Physical reference samples whose scaled values are 1.0 (the level of    *)
(* code 1), 1.5 (half-way between codes 1 and 2) and 2^Nb + 0.5 (above the *)
(* code range), for |Qstep| = q.                                           *)
RefVals(Nb, q) == { ((s - 2^Nb) * q) \div 2 : s \in {2, 3, 2 * 2^Nb + 1} }

(* References of L samples: constant, or one step between two values. *)
RefSeqs(Nb, q, L) ==
    { [k \in 1..L |-> IF k <= m THEN a ELSE b] :
        a \in RefVals(Nb, q), b \in RefVals(Nb, q), m \in 1..L }

(* Ideal level tables: a uniform staircase of step Qstep, whose scaled     *)
(* level of code c is c (offset 0) or c + 1/2 (offset Qstep/2).            *)
IdealTable(Nb, q, off) == [k \in 1..NumCodes(Nb) |-> (k - 1 - 2^(Nb - 1)) * q + off]

(* Measured level tables: the ideal one plus a per-code error (INL), here  *)
(* half an LSB on the odd codes.                                           *)
MeasuredTable(YQ, q) == [k \in DOMAIN YQ |-> YQ[k] + (IF (k - 1) % 2 = 1 THEN q \div 2 ELSE 0)]

TablePairs(Nb, q) ==
    { <<IdealTable(Nb, q, off), MeasuredTable(IdealTable(Nb, q, off), q)>> :
        off \in {0, q \div 2} }

(* A constructor that stores B in the field D as well. *)
Construct_copyB(enc, Nb, Qstep, QMODEL, P) ==
    [enc |-> enc, Nb |-> Nb, Qstep |-> Abs(Qstep), QMODEL |-> QMODEL,
     A |-> P.A, B |-> P.B, C |-> P.C, D |-> P.B]

(* MPC.__init__ / MPC_BIN.__init__: the object's fields; Qstep is stored   *)
(* as its absolute value.                                                  *)
Construct(enc, Nb, Qstep, QMODEL, P) ==
    [enc |-> enc, Nb |-> Nb, Qstep |-> Abs(Qstep), QMODEL |-> QMODEL,
     A |-> P.A, B |-> P.B, C |-> P.C, D |-> P.D]

InputsFor(Nb, Qstep, N) ==
    { [self |-> Construct(enc, Nb, Qstep, qm, P), N_PRED |-> N, Xcs |-> X,
       YQns |-> T[1], MLns |-> T[2]] :
        enc \in Encodings, qm \in QModels, P \in PlantSet,
        X \in UNION { RefSeqs(Nb, Abs(Qstep), L) : L \in 1..(N + MaxIter) },
        T \in TablePairs(Nb, Abs(Qstep)) }

Inputs == UNION { InputsFor(Nb, q, N) : Nb \in NbSet, q \in QstepSet, N \in 1..MaxN }

---------------------------------------------------------------------------
(* The methods of MPC / MPC_BIN *)

(* A scaling without the offset to the mid code. *)
q_scaling_no_offset(self, X) == [k \in DOMAIN X |-> (2 * X[k]) \div self.Qstep]

(* q_scaling: X / Qstep + 2^(Nb-1), in half LSBs. *)
q_scaling(self, X) == [k \in DOMAIN X |-> (2 * X[k]) \div self.Qstep + 2^self.Nb]

(* A prediction that subtracts the input term. *)
state_prediction_minus(self, st, con) == self.A * st - self.B * con

(* state_prediction: A @ st + B * con. *)
state_prediction(self, st, con) == self.A * st + self.B * con

---------------------------------------------------------------------------
(* The horizon problem built in one iteration of the loop *)

(* The level the problem assumes for code c: the integer variable u[i]     *)
(* itself in MPC (line 132), QL_I . u[:, i] in MPC_BIN (line 124).         *)
AssumedLevels(self, QL_I) ==
    IF self.enc = "INT" THEN [k \in 1..NumCodes(self.Nb) |-> 2 * (k - 1)] ELSE QL_I

(* A window that starts one sample later, X[j+1 .. j+N]. *)
Window_ahead(X, j, N) == [i \in 1..N |-> X[j + i + 1]]

(* The reference samples X[j + i], i = 0..N_PRED-1 (X is 1-indexed here).  *)
Window(X, j, N) == [i \in 1..N |-> X[j + i]]

(* Variables u (N_PRED codes in 0..2^Nb-1: integer with bounds, or one-hot *)
(* columns summing to 1), the constraint x[0] == init_state, and the data  *)
(* of the objective and of the state-transition constraints.               *)
HorizonProblem(self, N, init_state, X, j, QL_I) ==
    [x0 |-> init_state, ref |-> Window(X, j, N), N |-> N,
     lvl |-> AssumedLevels(self, QL_I), Nb |-> self.Nb,
     A |-> self.A, B |-> self.B, C |-> self.C, D |-> self.D]

(* con = u[i] - X[j+i] *)
Con(p, u, i) == p.lvl[u[i] + 1] - p.ref[i]

(* The states the constraints force: x[0] = x0, x[i+1] = A x[i] + B con_i. *)
RECURSIVE StateAt(_, _, _)
StateAt(p, u, i) ==
    IF i = 0 THEN p.x0 ELSE p.A * StateAt(p, u, i - 1) + p.B * Con(p, u, i)

(* An error term that reads the state after the step, x[i+1], not x[i]. *)
ErrAt_next(p, u, i) == p.C * StateAt(p, u, i) + p.D * Con(p, u, i)

(* e_t = C @ x[i] + D * con, for horizon step i = 1..N (state x[i-1]). *)
ErrAt(p, u, i) == p.C * StateAt(p, u, i - 1) + p.D * Con(p, u, i)

(* An objective that keeps the last term only (Obj = instead of Obj +=). *)
ObjUpTo_last(p, u, n) == IF n = 0 THEN 0 ELSE ErrAt(p, u, n) * ErrAt(p, u, n)

RECURSIVE ObjUpTo(_, _, _)
ObjUpTo(p, u, n) ==
    IF n = 0 THEN 0 ELSE ObjUpTo(p, u, n - 1) + ErrAt(p, u, n) * ErrAt(p, u, n)

(* Obj = sum of e_t * e_t over the horizon. *)
Obj(p, u) == ObjUpTo(p, u, p.N)

ControlSeqs(p) == [1..p.N -> Codes(p.Nb)]

(* m.optimize() with status OPTIMAL: the global minimisers. *)
Minimisers(p) ==
    LET J == [u \in ControlSeqs(p) |-> Obj(p, u)]
        best == MinOf({ J[u] : u \in ControlSeqs(p) })
    IN  { u \in ControlSeqs(p) : J[u] = best }

---------------------------------------------------------------------------
(* What the solver reports, and how get_codes reads it *)

Float(k, d) == <<k, d>>

IsNonzero(f) == f # <<0, 0>>

Deviations == {-1, 0, 1}

(* The solution attribute X of m.getVars() for the u variables, in the     *)
(* order of the variables: u[0..N-1] in MPC; u[c, i] at c * N_PRED + i in  *)
(* MPC_BIN.  The deviation d is on the entry of u[0] (MPC); in MPC_BIN one *)
(* indicator of step 0 that is 0 in the solution, spur, may be reported as *)
(* eps (spur = -1: none).  The x variables follow and are never read.      *)
SolverValues(self, N, u, d, spur) ==
    IF self.enc = "INT"
    THEN [i \in 1..N |-> Float(u[i], IF i = 1 THEN d ELSE 0)]
    ELSE [n \in 1..(NumCodes(self.Nb) * N) |->
            LET c == (n - 1) \div N
                i == ((n - 1) % N) + 1
            IN  IF u[i] = c THEN Float(1, 0)
                ELSE IF i = 1 /\ c = spur THEN Float(0, 1)
                ELSE Float(0, 0)]

(* A conversion that rounds down instead of toward zero. *)
astype_int_floor(f) == IF f[2] < 0 THEN f[1] - 1 ELSE f[1]

(* numpy's astype(int) of a float k + d*eps: truncation toward zero. *)
astype_int(f) == IF f[2] < 0 /\ f[1] > 0 THEN f[1] - 1 ELSE f[1]

(* np.nonzero(u_val[:, i])[0]: the codes whose indicator is reported       *)
(* nonzero in column i (i = 1..N) of values reshaped to (2^Nb, N_PRED).    *)
NonzeroRows(self, N, values, i) ==
    { c \in Codes(self.Nb) : IsNonzero(values[c * N + i]) }

(* C_MPC: values[:N_PRED].astype(int) in MPC (line 162); the first nonzero *)
(* row of every column in MPC_BIN (lines 167-172).                         *)
DecodeControls(self, N, values) ==
    IF self.enc = "INT"
    THEN [i \in 1..N |-> astype_int(values[i])]
    ELSE [i \in 1..N |-> MinOf(NonzeroRows(self, N, values, i))]

(* A multi-step commit: the whole planned sequence is appended. *)
AppendCode_all(Cs, C_MPC) == Cs \o C_MPC

(* An insertion at the front of the list. *)
AppendCode_front(Cs, C_MPC) == <<C_MPC[1]>> \o Cs

(* C.append(C_MPC[0]) *)
AppendCode(Cs, C_MPC) == Append(Cs, C_MPC[1])

---------------------------------------------------------------------------
(* The local state of one call of get_codes *)

NoProblem ==
    [x0 |-> 0, ref |-> <<>>, N |-> 0, lvl |-> <<>>, Nb |-> 0,
     A |-> 0, B |-> 0, C |-> 0, D |-> 0]

NoSolution == [status |-> "NONE", X |-> <<>>]

(* Before the call: no local is bound.  solved, failed_solves, updates and *)
(* appended_at record what the call has done so far.                       *)
IdleRun ==
    [pc |-> "idle", X |-> <<>>, QLS |-> <<>>, QLS_bound |-> FALSE,
     QL_I |-> <<>>, QL_M |-> <<>>, C |-> <<>>, len_MPC |-> 0,
     init_state |-> 0, j |-> 0, prob |-> NoProblem, sol |-> NoSolution,
     values |-> <<>>, values_bound |-> FALSE, C_MPC |-> <<>>,
     failed_solves |-> {}, updates |-> 0, appended_at |-> <<>>]

---------------------------------------------------------------------------
(* get_codes, one step at a time.  Each step is a relation between the     *)
(* locals r before and r2 after it, for the inputs i of the call.          *)

(* The level table that line 92/94 binds to QLS (MPC only). *)
SelectedTable(i) ==
    IF i.self.QMODEL = 1 THEN q_scaling(i.self, i.YQns)
    ELSE IF i.self.QMODEL = 2 THEN q_scaling(i.self, i.MLns)
    ELSE <<>>

(* A loop that stops one iteration early. *)
LoopLength_short(X, N) == Len(X) - N - 1

(* A loop that runs one iteration more. *)
LoopLength_more(X, N) == Len(X) - N + 1

(* len_MPC = X.size - N_PRED *)
LoopLength(X, N) == Len(X) - N

(* A start that takes the plant state over instead of zeroing it (a state  *)
(* kept between calls).                                                    *)
Start_keep_state(i, r, r2) ==
    /\ r.pc = "idle"
    /\ r2 = [r EXCEPT
               !.pc = "loop",
               !.X = q_scaling(i.self, i.Xcs),
               !.QLS = IF i.self.enc = "INT" THEN SelectedTable(i) ELSE <<>>,
               !.QLS_bound = (i.self.enc = "INT" /\ i.self.QMODEL \in {1, 2}),
               !.QL_I = IF i.self.enc = "BIN" THEN q_scaling(i.self, i.YQns) ELSE <<>>,
               !.QL_M = IF i.self.enc = "BIN" THEN q_scaling(i.self, i.MLns) ELSE <<>>,
               !.C = <<>>,
               !.len_MPC = LoopLength(i.Xcs, i.N_PRED),
               !.j = 0]

(* Lines 86-106 (MPC), 83-97 (MPC_BIN): scaling, C = [], len_MPC and the   *)
(* zero initial state.                                                     *)
Start(i, r, r2) ==
    /\ r.pc = "idle"
    /\ r2 = [r EXCEPT
               !.pc = "loop",
               !.X = q_scaling(i.self, i.Xcs),
               !.QLS = IF i.self.enc = "INT" THEN SelectedTable(i) ELSE <<>>,
               !.QLS_bound = (i.self.enc = "INT" /\ i.self.QMODEL \in {1, 2}),
               !.QL_I = IF i.self.enc = "BIN" THEN q_scaling(i.self, i.YQns) ELSE <<>>,
               !.QL_M = IF i.self.enc = "BIN" THEN q_scaling(i.self, i.MLns) ELSE <<>>,
               !.C = <<>>,
               !.len_MPC = LoopLength(i.Xcs, i.N_PRED),
               !.init_state = 0,
               !.j = 0]

(* Lines 109-147 (MPC), 99-148 (MPC_BIN): a fresh environment and model,   *)
(* the variables, the constraints and the objective of iteration j.        *)
BuildProblem(i, r, r2) ==
    /\ r.pc = "loop"
    /\ r.j < r.len_MPC
    /\ r2 = [r EXCEPT
               !.pc = "solve",
               !.prob = HorizonProblem(i.self, i.N_PRED, r.init_state, r.X, r.j, r.QL_I)]

(* The noise a report may carry, <<d, spur>>: a deviation of u[0] (MPC),   *)
(* or one spurious indicator of step 0 in a row above the selected one,    *)
(* the rows the decoding meets first (MPC_BIN).                            *)
SolverNoise(self, u) ==
    IF self.enc = "INT"
    THEN { <<d, -1>> : d \in Deviations }
    ELSE { <<0, c>> : c \in -1 .. (u[1] - 1) }

(* m.optimize(): OPTIMAL with the values of a global minimiser, or an end  *)
(* without a solution.                                                     *)
SolverOutcomes(self, p) ==
    UNION { { [status |-> "OPTIMAL", X |-> SolverValues(self, p.N, u, n[1], n[2])] :
                n \in SolverNoise(self, u) } : u \in Minimisers(p) }
    \cup { [status |-> "NO_SOLUTION", X |-> <<>>] }

(* Line 154 (MPC), 151 (MPC_BIN). *)
Solve(i, r, r2) ==
    /\ r.pc = "solve"
    /\ \E out \in SolverOutcomes(i.self, r.prob) :
         r2 = [r EXCEPT
                 !.pc = "extract",
                 !.sol = out,
                 !.failed_solves = IF out.status = "OPTIMAL" THEN @ ELSE @ \cup {r.j}]

(* Lines 157-159 (MPC): getAttr("X") raises when there is no solution.     *)
(* Lines 153-159 (MPC_BIN): values is bound only under GRB.OPTIMAL; the    *)
(* else branch builds a SystemExit object and does not raise it.           *)
ExtractValues(i, r, r2) ==
    /\ r.pc = "extract"
    /\ r2 = IF r.sol.status = "OPTIMAL"
            THEN [r EXCEPT !.pc = "commit", !.values = r.sol.X, !.values_bound = TRUE]
            ELSE IF i.self.enc = "INT"
            THEN [r EXCEPT !.pc = "failed"]
            ELSE [r EXCEPT !.pc = "commit"]

(* Lines 162-165 (MPC), 162-173 (MPC_BIN): decode and append the first     *)
(* control.  Reading an unbound values raises (MPC_BIN, first iteration),  *)
(* and so does [0][0] on a column without a nonzero entry.                 *)
Commit(i, r, r2) ==
    /\ r.pc = "commit"
    /\ r2 = IF ~r.values_bound
               \/ (i.self.enc = "BIN" /\
                   \E k \in 1..i.N_PRED : NonzeroRows(i.self, i.N_PRED, r.values, k) = {})
            THEN [r EXCEPT !.pc = "failed"]
            ELSE LET C_MPC == DecodeControls(i.self, i.N_PRED, r.values)
                 IN  [r EXCEPT
                        !.pc = "update",
                        !.C_MPC = C_MPC,
                        !.C = AppendCode(r.C, C_MPC),
                        !.appended_at = Append(@, r.j)]

(* A level read from the ideal table whatever QMODEL is. *)
RealizedLevel_ideal(i, r, code) == q_scaling(i.self, i.YQns)[code + 1]

(* U_opt: QLS[C_MPC[0]] (MPC, line 168); QL_I or QL_M by QMODEL (MPC_BIN,  *)
(* lines 176-180).                                                         *)
RealizedLevel(i, r, code) ==
    IF i.self.enc = "INT" THEN r.QLS[code + 1]
    ELSE IF i.self.QMODEL = 1 THEN r.QL_I[code + 1]
    ELSE r.QL_M[code + 1]

(* Whether U_opt can be read: QLS / U_opt is bound only for QMODEL 1, 2.   *)
LevelBound(i, r) == i.self.QMODEL \in {1, 2}

(* An update that takes over the state x[1] the optimizer planned. *)
NextState_planned(i, r) == StateAt(r.prob, r.C_MPC, 1)

(* init_state after lines 171-175 (MPC), 183-187 (MPC_BIN). *)
NextState(i, r) ==
    state_prediction(i.self, r.init_state, RealizedLevel(i, r, r.C_MPC[1]) - r.X[r.j + 1])

(* An update that reads the ideal table when QMODEL selects no table. *)
UpdateState_fallback(i, r, r2) ==
    /\ r.pc = "update"
    /\ r2 = [r EXCEPT
               !.pc = "loop",
               !.init_state =
                   state_prediction(i.self, r.init_state,
                                    q_scaling(i.self, i.YQns)[r.C_MPC[1] + 1] - r.X[r.j + 1]),
               !.j = r.j + 1,
               !.updates = @ + 1]

(* Lines 167-175 (MPC), 175-187 (MPC_BIN): the level of the committed code *)
(* and the plant-state update; then the loop goes on with j + 1.           *)
UpdateState(i, r, r2) ==
    /\ r.pc = "update"
    /\ r2 = IF ~LevelBound(i, r)
            THEN [r EXCEPT !.pc = "failed"]
            ELSE [r EXCEPT
                    !.pc = "loop",
                    !.init_state = NextState(i, r),
                    !.j = r.j + 1,
                    !.updates = @ + 1]

(* A return indented into the loop body: it ends the call at any pass. *)
Return_early(i, r, r2) ==
    /\ r.pc = "loop"
    /\ r2 = [r EXCEPT !.pc = "done"]

(* A return that waits for j to reach len_MPC exactly. *)
Return_exact(i, r, r2) ==
    /\ r.pc = "loop"
    /\ r.j = r.len_MPC
    /\ r2 = [r EXCEPT !.pc = "done"]

(* Line 178 (MPC), 189 (MPC_BIN): the loop is over, C is returned. *)
Return(i, r, r2) ==
    /\ r.pc = "loop"
    /\ r.j >= r.len_MPC
    /\ r2 = [r EXCEPT !.pc = "done"]

---------------------------------------------------------------------------
(* One call of get_codes on one object *)

Init ==
    /\ inp \in Inputs
    /\ run = IdleRun
    /\ inp2 = inp
    /\ twin = IdleRun

(* A start that scales the caller's reference array in place. *)
StartStep_in_place ==
    /\ Start(inp, run, run')
    /\ inp' = [inp EXCEPT !.Xcs = run'.X]
    /\ UNCHANGED <<inp2, twin>>

StartStep == Start(inp, run, run') /\ UNCHANGED <<inp, inp2, twin>>

BuildStep == BuildProblem(inp, run, run') /\ UNCHANGED <<inp, inp2, twin>>

SolveStep == Solve(inp, run, run') /\ UNCHANGED <<inp, inp2, twin>>

ExtractStep == ExtractValues(inp, run, run') /\ UNCHANGED <<inp, inp2, twin>>

CommitStep == Commit(inp, run, run') /\ UNCHANGED <<inp, inp2, twin>>

UpdateStep == UpdateState(inp, run, run') /\ UNCHANGED <<inp, inp2, twin>>

ReturnStep == Return(inp, run, run') /\ UNCHANGED <<inp, inp2, twin>>

Next ==
    \/ StartStep
    \/ BuildStep
    \/ SolveStep
    \/ ExtractStep
    \/ CommitStep
    \/ UpdateStep
    \/ ReturnStep

Spec == Init /\ [][Next]_vars

---------------------------------------------------------------------------
(* Two objects, MPC and MPC_BIN, constructed alike and called with the     *)
(* same arguments, one call after the other.                               *)

PairNbSet == {3}

PairPlantSet == { [A |-> 1, B |-> 1, C |-> 1, D |-> 1] }

(* Calls whose two level tables are the uniform staircase: the scaled      *)
(* level of code c is c.                                                   *)
PairInputsFor(Nb, Qstep, N) ==
    { [self |-> Construct("INT", Nb, Qstep, qm, P), N_PRED |-> N, Xcs |-> X,
       YQns |-> IdealTable(Nb, Abs(Qstep), 0), MLns |-> IdealTable(Nb, Abs(Qstep), 0)] :
        qm \in QModels, P \in PairPlantSet,
        X \in UNION { RefSeqs(Nb, Abs(Qstep), L) : L \in 1..(N + MaxIter) } }

PairInputs ==
    UNION { PairInputsFor(Nb, q, N) : Nb \in PairNbSet, q \in QstepSet, N \in 1..MaxN }

(* The same call on an MPC_BIN object. *)
BinaryTwin(i) == [i EXCEPT !.self.enc = "BIN"]

InitPair ==
    /\ inp \in PairInputs
    /\ run = IdleRun
    /\ inp2 = BinaryTwin(inp)
    /\ twin = IdleRun

TwinStartStep ==
    run.pc = "done" /\ Start(inp2, twin, twin') /\ UNCHANGED <<inp, run, inp2>>

TwinBuildStep == BuildProblem(inp2, twin, twin') /\ UNCHANGED <<inp, run, inp2>>

TwinSolveStep == Solve(inp2, twin, twin') /\ UNCHANGED <<inp, run, inp2>>

TwinExtractStep == ExtractValues(inp2, twin, twin') /\ UNCHANGED <<inp, run, inp2>>

TwinCommitStep == Commit(inp2, twin, twin') /\ UNCHANGED <<inp, run, inp2>>

TwinUpdateStep == UpdateState(inp2, twin, twin') /\ UNCHANGED <<inp, run, inp2>>

TwinReturnStep == Return(inp2, twin, twin') /\ UNCHANGED <<inp, run, inp2>>

NextPair ==
    \/ StartStep
    \/ BuildStep
    \/ SolveStep
    \/ ExtractStep
    \/ CommitStep
    \/ UpdateStep
    \/ ReturnStep
    \/ TwinStartStep
    \/ TwinBuildStep
    \/ TwinSolveStep
    \/ TwinExtractStep
    \/ TwinCommitStep
    \/ TwinUpdateStep
    \/ TwinReturnStep

SpecPair == InitPair /\ [][NextPair]_vars

---------------------------------------------------------------------------
(* The rate-limited variant: get_codes(N_PRED, X, YQns, MLns, Step).  Its   *)
(* horizon problem adds |u_i - u_{i-1}| <= Step for i = 1..N-1 and, for    *)
(* i = 0, against the last applied code; the first iteration has no        *)
(* applied code and no constraint on u_0.                                  *)

RLStepSet == {1, 2}

RLInputsFor(Nb, Qstep, N) ==
    { [self |-> i.self, N_PRED |-> i.N_PRED, Xcs |-> i.Xcs, YQns |-> i.YQns,
       MLns |-> i.MLns, Step |-> s] :
        i \in { k \in InputsFor(Nb, Qstep, N) : k.self.QMODEL = 2 }, s \in RLStepSet }

RLInputs ==
    UNION { RLInputsFor(Nb, q, N) : Nb \in NbSet, q \in QstepSet, N \in 1..MaxN }

(* A rate limit that couples the steps of the horizon only. *)
RateLimited_horizon_only(p, u, Cs, s) ==
    \A k \in 2..p.N : Abs(u[k] - u[k - 1]) <= s

(* The rate constraints of the horizon problem, Cs the codes applied. *)
RateLimited(p, u, Cs, s) ==
    /\ Cs # <<>> => Abs(u[1] - Last(Cs)) <= s
    /\ \A k \in 2..p.N : Abs(u[k] - u[k - 1]) <= s

(* The optimal control sequences among those within the rate limit. *)
RLMinimisers(p, Cs, s) ==
    LET F == { u \in ControlSeqs(p) : RateLimited(p, u, Cs, s) }
        J == [u \in F |-> Obj(p, u)]
        best == MinOf({ J[u] : u \in F })
    IN  { u \in F : J[u] = best }

(* The solve of the rate-limited problem: an optimal sequence, or an end   *)
(* without a solution.                                                     *)
RLSolve(i, r, r2) ==
    /\ r.pc = "solve"
    /\ \E out \in { [status |-> "OPTIMAL", X |-> SolverValues(i.self, i.N_PRED, u, 0, -1)] :
                       u \in RLMinimisers(r.prob, r.C, i.Step) }
                  \cup { [status |-> "NO_SOLUTION", X |-> <<>>] } :
         r2 = [r EXCEPT
                 !.pc = "extract",
                 !.sol = out,
                 !.failed_solves = IF out.status = "OPTIMAL" THEN @ ELSE @ \cup {r.j}]

(* A solve without a solution is fatal for the run. *)
RLExtract(i, r, r2) ==
    /\ r.pc = "extract"
    /\ r2 = IF r.sol.status = "OPTIMAL"
            THEN [r EXCEPT !.pc = "commit", !.values = r.sol.X, !.values_bound = TRUE]
            ELSE [r EXCEPT !.pc = "failed"]

(* The code applied now is the first control of the solution. *)
RLCommit(i, r, r2) ==
    /\ r.pc = "commit"
    /\ LET C_MPC == DecodeControls(i.self, i.N_PRED, r.values)
       IN  r2 = [r EXCEPT
                   !.pc = "update",
                   !.C_MPC = C_MPC,
                   !.C = Append(@, C_MPC[1]),
                   !.appended_at = Append(@, r.j)]

InitRL ==
    /\ inp \in RLInputs
    /\ run = IdleRun
    /\ inp2 = inp
    /\ twin = IdleRun

RLStartStep == Start(inp, run, run') /\ UNCHANGED <<inp, inp2, twin>>

RLBuildStep == BuildProblem(inp, run, run') /\ UNCHANGED <<inp, inp2, twin>>

RLSolveStep == RLSolve(inp, run, run') /\ UNCHANGED <<inp, inp2, twin>>

RLExtractStep == RLExtract(inp, run, run') /\ UNCHANGED <<inp, inp2, twin>>

RLCommitStep == RLCommit(inp, run, run') /\ UNCHANGED <<inp, inp2, twin>>

RLUpdateStep == UpdateState(inp, run, run') /\ UNCHANGED <<inp, inp2, twin>>

RLReturnStep == Return(inp, run, run') /\ UNCHANGED <<inp, inp2, twin>>

NextRL ==
    \/ RLStartStep
    \/ RLBuildStep
    \/ RLSolveStep
    \/ RLExtractStep
    \/ RLCommitStep
    \/ RLUpdateStep
    \/ RLReturnStep

SpecRL == InitRL /\ [][NextRL]_vars

---------------------------------------------------------------------------
(* Calls of MPC.get_codes with a 4-bit converter, Qstep = 1, N_PRED = 1    *)
(* and the plant A = 0, B = 1, C = 1, D = 0, on the first samples of a     *)
(* reference held at the mid code 8 or ramping up from code 0 by one code  *)
(* per sample.                                                             *)

ScenarioNbSet == {4}

ScenarioPlant == [A |-> 0, B |-> 1, C |-> 1, D |-> 0]

(* The scaled reference is 8 in every sample. *)
ConstantRef(Nb, q, L) == [k \in 1..L |-> 0]

(* The scaled reference of sample k (from 0) is k. *)
RampRef(Nb, q, L) == [k \in 1..L |-> (k - 1 - 2^(Nb - 1)) * q]

ScenarioInputsFor(Nb) ==
    { [self |-> Construct("INT", Nb, 1, qm, ScenarioPlant), N_PRED |-> 1, Xcs |-> X,
       YQns |-> IdealTable(Nb, 1, 0), MLns |-> IdealTable(Nb, 1, 0)] :
        qm \in QModels,
        X \in UNION { {ConstantRef(Nb, 1, L), RampRef(Nb, 1, L)} : L \in 2..(1 + MaxIter) } }

ScenarioInputs == UNION { ScenarioInputsFor(Nb) : Nb \in ScenarioNbSet }

InitScenario ==
    /\ inp \in ScenarioInputs
    /\ run = IdleRun
    /\ inp2 = inp
    /\ twin = IdleRun

SpecScenario == InitScenario /\ [][Next]_vars

---------------------------------------------------------------------------
(* Calls on objects constructed with a positive or a negative Qstep.  The  *)
(* constructor checks nothing and keeps abs(Qstep); args records what it   *)
(* was given.                                                              *)

ConfigQstepSet == {-2, 2}

ConfigInputsFor(Nb, Qstep) ==
    { [self |-> i.self, N_PRED |-> i.N_PRED, Xcs |-> i.Xcs, YQns |-> i.YQns,
       MLns |-> i.MLns, args |-> [Nb |-> Nb, Qstep |-> Qstep]] :
        i \in InputsFor(Nb, Qstep, 1) }

ConfigInputs ==
    UNION { ConfigInputsFor(Nb, q) : Nb \in NbSet, q \in ConfigQstepSet }

InitConfig ==
    /\ inp \in ConfigInputs
    /\ run = IdleRun
    /\ inp2 = inp
    /\ twin = IdleRun

SpecConfig == InitConfig /\ [][Next]_vars

---------------------------------------------------------------------------
(* generate_dac_output(C, ML): the level look-up of the static DAC model,  *)
(* Y[k, :] = ML[k, C[k, :]], with the indexing rules of numpy.             *)

LookupCodeSet == {-5, -4, -1, 0, 3, 4}

(* Code arrays of one or two channels and one or two samples. *)
LookupRows == UNION { [1..n -> LookupCodeSet] : n \in 1..2 }

LookupCodeArrays ==
    { <<a>> : a \in LookupRows }
    \cup { <<a, b>> : a \in { r \in LookupRows : Len(r) = 1 },
                      b \in { r \in LookupRows : Len(r) = 1 } }

(* Level arrays of one or two channels for a 2-bit converter. *)
LookupLevelArrays ==
    { <<IdealTable(2, 2, 0)>>,
      <<IdealTable(2, 2, 0), MeasuredTable(IdealTable(2, 2, 0), 2)>> }

(* row[c] in numpy: an index in -n..-1 counts from the end of the row, an  *)
(* index outside -n..n-1 raises IndexError.                                *)
numpy_index(row, c) ==
    IF c >= 0 /\ c < Len(row) THEN [ok |-> TRUE, val |-> row[c + 1]]
    ELSE IF c < 0 /\ c >= -Len(row) THEN [ok |-> TRUE, val |-> row[c + Len(row) + 1]]
    ELSE [ok |-> FALSE, val |-> 0]

generate_dac_output(C, ML) ==
    IF Len(C) > Len(ML) THEN [status |-> "ValueError", Y |-> <<>>]
    ELSE IF \E k \in 1..Len(C) : \E j \in 1..Len(C[k]) : ~numpy_index(ML[k], C[k][j]).ok
    THEN [status |-> "IndexError", Y |-> <<>>]
    ELSE [status |-> "returned",
          Y |-> [k \in 1..Len(C) |->
                    [j \in 1..Len(C[k]) |-> numpy_index(ML[k], C[k][j]).val]]]

IdleLookup == [pc |-> "idle", status |-> "none", Y |-> <<>>]

InitLookup ==
    /\ inp \in [C : LookupCodeArrays, ML : LookupLevelArrays]
    /\ run = IdleLookup
    /\ inp2 = inp
    /\ twin = IdleLookup

LookupStep ==
    /\ run.pc = "idle"
    /\ run' = [pc |-> "called",
               status |-> generate_dac_output(inp.C, inp.ML).status,
               Y |-> generate_dac_output(inp.C, inp.ML).Y]
    /\ UNCHANGED <<inp, inp2, twin>>

NextLookup == LookupStep

SpecLookup == InitLookup /\ [][NextLookup]_vars

---------------------------------------------------------------------------
(* Two calls of get_codes on the same object, with the same arguments, the *)
(* second after the first has returned.                                    *)

TwoCallInputs ==
    UNION { { i \in InputsFor(Nb, q, 1) : Len(i.Xcs) \in {2, 3} } :
              Nb \in NbSet, q \in QstepSet }

(* The locals of a call that follows the call with locals r: none is bound *)
(* yet; where the plant state will live, the memory still holds the state  *)
(* the earlier call ended with.                                            *)
LocalsAfter(r) == [IdleRun EXCEPT !.init_state = r.init_state]

InitTwoCalls ==
    /\ inp \in TwoCallInputs
    /\ run = IdleRun
    /\ inp2 = inp
    /\ twin = IdleRun

SecondCallStep ==
    /\ run.pc = "done"
    /\ twin.pc = "idle"
    /\ Start(inp2, LocalsAfter(run), twin')
    /\ UNCHANGED <<inp, run, inp2>>

NextTwoCalls ==
    \/ StartStep
    \/ BuildStep
    \/ SolveStep
    \/ ExtractStep
    \/ CommitStep
    \/ UpdateStep
    \/ ReturnStep
    \/ SecondCallStep
    \/ TwinBuildStep
    \/ TwinSolveStep
    \/ TwinExtractStep
    \/ TwinCommitStep
    \/ TwinUpdateStep
    \/ TwinReturnStep

SpecTwoCalls == InitTwoCalls /\ [][NextTwoCalls]_vars

---------------------------------------------------------------------------
(* Two calls that differ in the reference only, run side by side with a    *)
(* deterministic solver: the second call's solve of a problem the first    *)
(* call has just solved ends as the first call's solve did.                *)

(* The number of iterations of the calls compared. *)
CausalIterSet == {2}

(* Calls on the measured table (ideal table without offset) and the plant  *)
(* with feed-through.                                                      *)
CausalInputs ==
    { i \in Inputs : /\ Len(i.Xcs) - i.N_PRED \in CausalIterSet
                     /\ i.self.QMODEL = 2
                     /\ i.self.D # 0
                     /\ i.YQns = IdealTable(i.self.Nb, i.self.Qstep, 0) }

(* The same call with another reference of the same length that agrees     *)
(* with the first on the samples of the first window at least.             *)
OtherReferences(i) ==
    { [i EXCEPT !.Xcs = Y] :
        Y \in { Z \in RefSeqs(i.self.Nb, i.self.Qstep, Len(i.Xcs)) :
                  \A k \in 1..i.N_PRED : Z[k] = i.Xcs[k] } }

InitCausal ==
    /\ inp \in CausalInputs
    /\ run = IdleRun
    /\ inp2 \in OtherReferences(inp)
    /\ twin = IdleRun

(* The first call takes a step when the second has caught up or is over. *)
Lead ==
    \/ twin.pc = run.pc /\ twin.j = run.j
    \/ twin.pc \in {"done", "failed"}

(* m.optimize() of a deterministic solver: on the problem prev.prob it     *)
(* ends as it did for the call with locals prev.                           *)
SolveAgain(i, r, r2, prev) ==
    /\ r.pc = "solve"
    /\ \E out \in (IF prev.pc # "solve" /\ prev.prob = r.prob
                   THEN {prev.sol}
                   ELSE SolverOutcomes(i.self, r.prob)) :
         r2 = [r EXCEPT
                 !.pc = "extract",
                 !.sol = out,
                 !.failed_solves = IF out.status = "OPTIMAL" THEN @ ELSE @ \cup {r.j}]

LeadStartStep == Lead /\ StartStep

LeadBuildStep == Lead /\ BuildStep

LeadSolveStep == Lead /\ SolveStep

LeadExtractStep == Lead /\ ExtractStep

LeadCommitStep == Lead /\ CommitStep

LeadUpdateStep == Lead /\ UpdateStep

LeadReturnStep == Lead /\ ReturnStep

FollowStartStep == ~Lead /\ Start(inp2, twin, twin') /\ UNCHANGED <<inp, run, inp2>>

FollowBuildStep == ~Lead /\ TwinBuildStep

FollowSolveStep ==
    ~Lead /\ SolveAgain(inp2, twin, twin', run) /\ UNCHANGED <<inp, run, inp2>>

FollowExtractStep == ~Lead /\ TwinExtractStep

FollowCommitStep == ~Lead /\ TwinCommitStep

FollowUpdateStep == ~Lead /\ TwinUpdateStep

FollowReturnStep == ~Lead /\ TwinReturnStep

NextCausal ==
    \/ LeadStartStep
    \/ LeadBuildStep
    \/ LeadSolveStep
    \/ LeadExtractStep
    \/ LeadCommitStep
    \/ LeadUpdateStep
    \/ LeadReturnStep
    \/ FollowStartStep
    \/ FollowBuildStep
    \/ FollowSolveStep
    \/ FollowExtractStep
    \/ FollowCommitStep
    \/ FollowUpdateStep
    \/ FollowReturnStep

SpecCausal == InitCausal /\ [][NextCausal]_vars

---------------------------------------------------------------------------
(* Calls on objects whose QMODEL is none of the two cases of the match     *)
(* statement.                                                              *)

OtherQModels == {0, 3}

OtherModelInputs ==
    { [i EXCEPT !.self.QMODEL = q] :
        i \in { k \in Inputs : k.self.QMODEL = 1 }, q \in OtherQModels }

InitOtherModel ==
    /\ inp \in OtherModelInputs
    /\ run = IdleRun
    /\ inp2 = inp
    /\ twin = IdleRun

SpecOtherModel == InitOtherModel /\ [][Next]_vars

---------------------------------------------------------------------------
(* Properties *)

(* The scaled level table that QMODEL selects for the inputs of the call. *)
ConfiguredTable ==
    IF inp.self.QMODEL = 1 THEN q_scaling(inp.self, inp.YQns)
    ELSE q_scaling(inp.self, inp.MLns)

(* The largest scaled level of the code range, in half LSBs. *)
TopOfRange == 2 * (2^inp.self.Nb - 1)

(* C1: every element of the code sequence is an integer in 0..2^Nb-1, in   *)
(* both encodings, after any number of iterations, whatever the solver     *)
(* reports and also when the scaled reference is outside the code range.   *)
C1_CodesInRange ==
    \A k \in 1..Len(run.C) : run.C[k] \in 0 .. (2^inp.self.Nb - 1)

(* C1, witness: a finished call of two iterations whose first reference    *)
(* sample lies above the code range and whose first code is the top code.  *)
C1_Witness ==
    /\ run.pc = "done"
    /\ Len(run.C) >= 2
    /\ run.X[1] > TopOfRange
    /\ run.C[1] = 2^inp.self.Nb - 1

(* C2: for a reference of L samples and a horizon N <= L, the call returns *)
(* exactly L - N codes, the k-th of them appended by iteration j = k - 1.   *)
C2_LengthIsLMinusN ==
    (run.pc = "done" /\ inp.N_PRED <= Len(inp.Xcs)) =>
        /\ Len(run.C) = Len(inp.Xcs) - inp.N_PRED
        /\ run.appended_at = [k \in 1..(Len(inp.Xcs) - inp.N_PRED) |-> k - 1]

(* C2, witness: a finished call that returned two codes. *)
C2_Witness ==
    /\ run.pc = "done"
    /\ Len(inp.Xcs) - inp.N_PRED = 2
    /\ Len(run.C) = 2

(* C4: the plant state changes only in the update step of an iteration,    *)
(* once per iteration, and to A*state + B*(level[c_j] - X[j]) for the code *)
(* c_j just committed and the level table QMODEL selects.                  *)
C4_StateUpdatedFromRealizedLevel ==
    [][ /\ (run.pc = "update" /\ run'.pc = "loop") =>
              /\ run'.init_state =
                    inp.self.A * run.init_state
                    + inp.self.B * (ConfiguredTable[Last(run.C) + 1] - run.X[run.j + 1])
              /\ run'.updates = run.updates + 1
        /\ (run.pc \notin {"idle", "update"}) =>
              /\ run'.init_state = run.init_state
              /\ run'.updates = run.updates
        /\ (run'.pc = "loop") => run'.updates = run'.j
      ]_vars

(* C4, witness: an update of MPC after which the plant state is not the    *)
(* state x[1] that the optimizer planned for the control it selected.      *)
C4_Witness ==
    /\ inp.self.enc = "INT"
    /\ run.pc = "loop"
    /\ run.updates >= 1
    /\ run.sol.status = "OPTIMAL"
    /\ run.C_MPC[1] = run.sol.X[1][1]
    /\ run.init_state # StateAt(run.prob, run.C_MPC, 1)

(* C5: receding horizon.  The problem of an iteration is built from the    *)
(* current plant state and the window X[j .. j+N-1] of fixed length N; one *)
(* code is committed per iteration, element 0 of the decoded sequence; and *)
(* the loop advances by one sample.  So nothing of the plan beyond element *)
(* 0 reaches a later iteration.                                            *)
C5_RecedingHorizon ==
    [][ /\ (run.pc = "loop" /\ run'.pc = "solve") =>
              /\ run'.prob.x0 = run.init_state
              /\ run'.prob.N = inp.N_PRED
              /\ run'.prob.ref = [k \in 1..inp.N_PRED |-> run.X[run.j + k]]
        /\ (run.pc = "commit" /\ run'.pc = "update") =>
              /\ Len(run'.C) = Len(run.C) + 1
              /\ SubSeq(run'.C, 1, Len(run.C)) = run.C
              /\ Last(run'.C) = run'.C_MPC[1]
        /\ (run.pc = "update" /\ run'.pc = "loop") =>
              /\ run'.j = run.j + 1
              /\ run'.init_state =
                    inp.self.A * run.init_state
                    + inp.self.B * (ConfiguredTable[Last(run.C) + 1] - run.X[run.j + 1])
      ]_vars

(* C5, witness: with N = 2, the solve of a later iteration selects a first *)
(* control that differs from the control u_1 planned one iteration before. *)
C5_Witness ==
    /\ inp.self.enc = "INT"
    /\ inp.N_PRED = 2
    /\ run.pc = "extract"
    /\ run.j >= 1
    /\ run.values_bound
    /\ run.sol.status = "OPTIMAL"
    /\ run.values[2][1] # run.sol.X[1][1]

(* C3: when the solve of iteration j ends without a solution, the call     *)
(* appends no code for iteration j or later, performs no further update    *)
(* of the plant state and returns nothing.                                 *)
C3_SolverFailureIsFatal ==
    \A jf \in run.failed_solves :
        /\ Len(run.C) <= jf
        /\ run.updates <= jf
        /\ run.pc # "done"

(* The horizon problem of the claims' text for the current iteration: the  *)
(* control of step i is the code u_i itself, x_0 the current plant state.  *)
StatedProblem(M) ==
    [x0 |-> run.init_state,
     ref |-> [k \in 1..M |-> run.X[run.j + k]],
     N |-> M,
     lvl |-> [k \in 1..(2^inp.self.Nb) |-> 2 * (k - 1)],
     Nb |-> inp.self.Nb,
     A |-> inp.self.A, B |-> inp.self.B, C |-> inp.self.C, D |-> inp.self.D]

(* C6 (integer encoding): the code committed in an iteration is element 0  *)
(* of a control sequence that no admissible sequence beats on the sum of   *)
(* e_i^2 over the horizon.                                                 *)
C6_CommittedCodeIsOptimal ==
    (inp.self.enc = "INT" /\ run.pc = "update") =>
        \E u \in ControlSeqs(StatedProblem(inp.N_PRED)) :
            /\ u[1] = Last(run.C)
            /\ \A v \in ControlSeqs(StatedProblem(inp.N_PRED)) :
                   Obj(StatedProblem(inp.N_PRED), u) <= Obj(StatedProblem(inp.N_PRED), v)

(* C9 (integer encoding, N = 1, feed-through D # 0, reference constant at  *)
(* the level of a code c whose level is c): once a committed code equals   *)
(* c, every later committed code equals c.                                 *)
C9_StaysAtMatchingCode ==
    \A c \in 0 .. (2^inp.self.Nb - 1) :
        ( /\ inp.self.enc = "INT"
          /\ inp.N_PRED = 1
          /\ inp.self.D # 0
          /\ run.pc # "idle"
          /\ ConfiguredTable[c + 1] = 2 * c
          /\ \A k \in 1..Len(run.X) : run.X[k] = ConfiguredTable[c + 1] )
        => \A a \in 1..Len(run.C) : \A b \in a..Len(run.C) :
               run.C[a] = c => run.C[b] = c

(* The problem the code builds for the current iteration with horizon M. *)
ProblemWithHorizon(M) ==
    HorizonProblem(inp.self, M, run.init_state, run.X, run.j, run.QL_I)

(* e_0^2 of a control sequence u of problem p. *)
StepZeroTerm(p, u) ==
    (p.C * p.x0 + p.D * (p.lvl[u[1] + 1] - p.ref[1]))
    * (p.C * p.x0 + p.D * (p.lvl[u[1] + 1] - p.ref[1]))

BestObj(p) == MinOf({ Obj(p, u) : u \in ControlSeqs(p) })

(* C10 as stated: for the same plant state and reference, the step-0 term  *)
(* of an optimal solution with the longer horizon N_PRED is never larger   *)
(* than that of an optimal solution with the horizon N_PRED - 1.           *)
C10_StepZeroTermNotLargerWithLongerHorizon ==
    (run.pc = "solve" /\ inp.N_PRED >= 2) =>
        LET short == ProblemWithHorizon(inp.N_PRED - 1)
            long == ProblemWithHorizon(inp.N_PRED)
            shortBest == { StepZeroTerm(short, u) : u \in Minimisers(short) }
            longBest == { StepZeroTerm(long, v) : v \in Minimisers(long) }
        IN  \A a \in shortBest : \A b \in longBest : b <= a

(* C10, amended: for the same plant state and reference, the step-0 term   *)
(* of an optimal solution with horizon 1 is never larger than that of an   *)
(* optimal solution with a longer horizon, and the optimal objective value *)
(* does not decrease when the horizon grows by one.                        *)
C10_HorizonOneMinimisesStepZero ==
    (run.pc = "solve") =>
        LET one == ProblemWithHorizon(1)
            oneBest == { StepZeroTerm(one, u) : u \in Minimisers(one) }
            stepZero == [M \in 1..inp.N_PRED |->
                            { StepZeroTerm(ProblemWithHorizon(M), v) :
                                  v \in Minimisers(ProblemWithHorizon(M)) }]
            best == [M \in 1..inp.N_PRED |-> BestObj(ProblemWithHorizon(M))]
        IN  /\ \A M \in 1..inp.N_PRED :
                 \A a \in oneBest : \A b \in stepZero[M] : a <= b
            /\ \A M \in 1..(inp.N_PRED - 1) : best[M] <= best[M + 1]

(* C10, witness: a problem whose optimal solution with horizon N_PRED has  *)
(* a strictly larger step-0 term than its optimal solution with horizon    *)
(* N_PRED - 1.                                                             *)
C10_Witness ==
    /\ run.pc = "solve"
    /\ inp.N_PRED >= 2
    /\ \E u \in Minimisers(ProblemWithHorizon(inp.N_PRED - 1)) :
         \E v \in Minimisers(ProblemWithHorizon(inp.N_PRED)) :
            StepZeroTerm(ProblemWithHorizon(inp.N_PRED), v)
                > StepZeroTerm(ProblemWithHorizon(inp.N_PRED - 1), u)

(* The level table QMODEL selects for the call i, scaled. *)
TableOf(i) ==
    IF i.self.QMODEL = 1 THEN q_scaling(i.self, i.YQns) ELSE q_scaling(i.self, i.MLns)

(* The plant state after the first k codes of Cs were committed in call i. *)
RECURSIVE ReplayState(_, _, _)
ReplayState(i, Cs, k) ==
    IF k = 0 THEN 0
    ELSE state_prediction(i.self, ReplayState(i, Cs, k - 1),
                          TableOf(i)[Cs[k] + 1] - q_scaling(i.self, i.Xcs)[k])

(* In every iteration that committed a code of Cs, all optimal control     *)
(* sequences of the iteration's problem begin with the same code.          *)
UniqueFirstControl(i, Cs) ==
    \A k \in 1..Len(Cs) :
        LET p == HorizonProblem(i.self, i.N_PRED, ReplayState(i, Cs, k - 1),
                                q_scaling(i.self, i.Xcs), k - 1,
                                q_scaling(i.self, i.YQns))
            firsts == { u[1] : u \in Minimisers(p) }
        IN  Cardinality(firsts) = 1

(* C8: for Nb = 3, N in 1..MaxN and level tables whose scaled level of     *)
(* code c is c, MPC and MPC_BIN called with the same reference, plant and  *)
(* QMODEL return the same code sequence, whenever no iteration of either   *)
(* call has two optimal first controls to choose from.                     *)
C8_EncodingsAgree ==
    ( /\ run.pc = "done"
      /\ twin.pc = "done"
      /\ UniqueFirstControl(inp, run.C)
      /\ UniqueFirstControl(inp2, twin.C) )
    => run.C = twin.C

(* C11: in the rate-limited variant with Step = s, any two consecutive     *)
(* codes of the output sequence differ by at most s.                       *)
C11_ConsecutiveCodesWithinStep ==
    \A k \in 2..Len(run.C) : Abs(run.C[k] - run.C[k - 1]) <= inp.Step

(* C11, witness: a code was committed within Step of the previous one      *)
(* although every optimal first control of the problem without the rate    *)
(* constraints is further away.                                            *)
C11_Witness ==
    /\ run.pc = "update"
    /\ Len(run.C) >= 2
    /\ Abs(Last(run.C) - run.C[Len(run.C) - 1]) <= inp.Step
    /\ \A u \in Minimisers(run.prob) : Abs(u[1] - run.C[Len(run.C) - 1]) > inp.Step

(* The call is the scenario with the reference held at the mid code. *)
ConstantScenario == inp.Xcs = ConstantRef(inp.self.Nb, inp.self.Qstep, Len(inp.Xcs))

(* C12 as stated: with Nb = 4, Qstep = 1, the plant A = 0, B = 1, C = 1,   *)
(* D = 0, N = 1 and the reference constantly 8 in code space, every        *)
(* element of the returned code sequence is 8.                             *)
C12_ConstantReferenceGivesCodeEight ==
    (ConstantScenario /\ run.pc = "done") =>
        \A k \in 1..Len(run.C) : run.C[k] = 8

(* C12, amended: in that scenario the objective of every iteration does    *)
(* not depend on the code (D = 0, N = 1), so each of the codes 0..15, code *)
(* 8 among them, is an optimal first control, and every element of the     *)
(* code sequence is one of these optimal codes.                            *)
C12_EveryCodeIsOptimal ==
    ConstantScenario =>
        /\ (run.pc = "solve") =>
               { u[1] : u \in Minimisers(run.prob) } = 0 .. (2^inp.self.Nb - 1)
        /\ (run.pc = "update") =>
               Last(run.C) \in { u[1] : u \in Minimisers(run.prob) }

(* C12, witness: a finished call of the scenario whose first code is 8 and *)
(* whose second code is another code.                                      *)
C12_Witness ==
    /\ ConstantScenario
    /\ run.pc = "done"
    /\ run.failed_solves = {}
    /\ Len(run.C) >= 2
    /\ run.C[1] = 8
    /\ run.C[2] # 8

(* The call is the scenario with the ramp reference. *)
RampScenario == inp.Xcs = RampRef(inp.self.Nb, inp.self.Qstep, Len(inp.Xcs))

(* C13 as stated: with N = 1, the plant A = 0, B = 1, C = 1, D = 0, the    *)
(* ideal level table and a reference that ramps from code 0 by one code    *)
(* per sample, the k-th returned code (from 0) is round(reference) = k.    *)
C13_RampGivesRoundedReference ==
    (RampScenario /\ run.pc = "done") =>
        \A k \in 1..Len(run.C) : run.C[k] = k - 1

(* C13, amended: in that scenario round(reference) is an optimal code at   *)
(* every sample but not the only one: every control has the objective      *)
(* value of round(reference), and so has each code of the output.          *)
C13_RoundedReferenceIsOneOptimum ==
    RampScenario =>
        /\ (run.pc = "solve") =>
               \A u \in ControlSeqs(run.prob) :
                   Obj(run.prob, u) = Obj(run.prob, <<run.j>>)
        /\ (run.pc = "update") =>
               Obj(run.prob, <<Last(run.C)>>) = Obj(run.prob, <<run.j>>)

(* C13, witness: a finished call on the ramp whose first code is           *)
(* round(reference) = 0 and whose second code is not round(reference) = 1. *)
C13_Witness ==
    /\ RampScenario
    /\ run.pc = "done"
    /\ run.failed_solves = {}
    /\ Len(run.C) >= 2
    /\ run.C[1] = 0
    /\ run.C[2] # 1

(* C14: an object whose constructor was given a non-positive Qstep or     *)
(* Nb <= 0 does not exist after construction, so no call of get_codes on   *)
(* it leaves the idle state or produces a code.                            *)
C14_InvalidConfigIsRejected ==
    (inp.args.Qstep <= 0 \/ inp.args.Nb <= 0) =>
        /\ run.pc = "idle"
        /\ run.C = <<>>

(* C15: for code and level arrays with enough channels, the look-up       *)
(* returns for every code in 0..2^Nb-1 the table entry of that code, and   *)
(* fails with an index error when some code is below 0 or above 2^Nb-1.    *)
C15_LookupOutsideRangeFails ==
    (run.pc = "called" /\ Len(inp.C) <= Len(inp.ML)) =>
        IF \A k \in 1..Len(inp.C) : \A j \in 1..Len(inp.C[k]) :
               inp.C[k][j] \in 0 .. (Len(inp.ML[k]) - 1)
        THEN /\ run.status = "returned"
             /\ \A k \in 1..Len(inp.C) : \A j \in 1..Len(inp.C[k]) :
                    run.Y[k][j] = inp.ML[k][inp.C[k][j] + 1]
        ELSE run.status = "IndexError"

(* The scaled value of one physical value x, in half LSBs. *)
Scaled(x) == q_scaling(inp.self, <<x>>)[1]

(* The physical values of the call: reference samples and table levels. *)
PhysicalValues ==
    { inp.Xcs[k] : k \in DOMAIN inp.Xcs }
    \cup { inp.YQns[k] : k \in DOMAIN inp.YQns }
    \cup { inp.MLns[k] : k \in DOMAIN inp.MLns }

(* C16: q_scaling maps x to x/Qstep + 2^(Nb-1) (here in half LSBs:         *)
(* Scaled(x) * Qstep = 2x + 2^Nb * Qstep): 0 goes to the mid code, the map *)
(* is strictly increasing, an ideal table with spacing Qstep and level 0   *)
(* at the mid code goes to the code indices, and get_codes scales the      *)
(* reference and the level tables it uses with this one map.  The facts    *)
(* about the map are stated for the arguments of every call, before its    *)
(* start; the arguments do not change during the call.                     *)
C16_ScalingIsAffine ==
    /\ (run.pc = "idle") =>
           /\ Scaled(0) = 2 * 2^(inp.self.Nb - 1)
           /\ \A x \in PhysicalValues :
                  Scaled(x) * inp.self.Qstep = 2 * x + 2^inp.self.Nb * inp.self.Qstep
           /\ \A x \in PhysicalValues : \A y \in PhysicalValues :
                  x < y => Scaled(x) < Scaled(y)
           /\ (inp.YQns = IdealTable(inp.self.Nb, inp.self.Qstep, 0)) =>
                  \A c \in 0 .. (2^inp.self.Nb - 1) : Scaled(inp.YQns[c + 1]) = 2 * c
    /\ (run.pc # "idle") =>
           /\ run.X = [k \in DOMAIN inp.Xcs |-> Scaled(inp.Xcs[k])]
           /\ (inp.self.enc = "INT") =>
                  run.QLS = [k \in DOMAIN inp.YQns |->
                                IF inp.self.QMODEL = 1 THEN Scaled(inp.YQns[k])
                                ELSE Scaled(inp.MLns[k])]
           /\ (inp.self.enc = "BIN") =>
                  /\ run.QL_I = [k \in DOMAIN inp.YQns |-> Scaled(inp.YQns[k])]
                  /\ run.QL_M = [k \in DOMAIN inp.MLns |-> Scaled(inp.MLns[k])]

(* C16, witness: a started call of MPC_BIN with the ideal table centred on *)
(* the mid code, a measured table that differs from it and a reference     *)
(* sample above the code range, all three scaled.                          *)
C16_Witness ==
    /\ run.pc = "loop"
    /\ inp.self.enc = "BIN"
    /\ inp.YQns = IdealTable(inp.self.Nb, inp.self.Qstep, 0)
    /\ run.QL_I = [k \in 1..(2^inp.self.Nb) |-> 2 * (k - 1)]
    /\ run.QL_M # run.QL_I
    /\ \E k \in DOMAIN run.X : run.X[k] > 2 * (2^inp.self.Nb - 1)

(* The steps of one pass of the loop, in the order they are taken when    *)
(* the solve returned a solution.                                          *)
C17_StepOrder ==
    /\ (run.pc = "idle") => (run'.pc = "loop" /\ run'.j = 0 /\ run'.C = <<>>)
    /\ (run.pc = "loop" /\ run.j < Len(inp.Xcs) - inp.N_PRED) =>
           (run'.pc = "solve" /\ run'.j = run.j /\ run'.C = run.C)
    /\ (run.pc = "loop" /\ run.j >= Len(inp.Xcs) - inp.N_PRED) =>
           /\ run'.pc = "done"
           /\ run'.C = run.C
           /\ (inp.N_PRED <= Len(inp.Xcs)) =>
                  /\ run.j = Len(inp.Xcs) - inp.N_PRED
                  /\ Len(run.C) = run.j
                  /\ run.updates = run.j
    /\ (run.pc = "solve") =>
           (run'.pc = "extract" /\ run'.j = run.j /\ run'.C = run.C)
    /\ (run.pc = "extract") =>
           (run'.pc = "commit" /\ run'.j = run.j /\ run'.C = run.C)
    /\ (run.pc = "commit") =>
           /\ run'.pc = "update"
           /\ run'.j = run.j
           /\ run'.C = Append(run.C, run'.C_MPC[1])
           /\ run'.updates = run.updates
    /\ (run.pc = "update") =>
           /\ run'.pc = "loop"
           /\ run'.j = run.j + 1
           /\ run'.C = run.C
           /\ run'.updates = run.updates + 1

(* C17: as long as every solve returned a solution, a call never fails, is *)
(* never stuck before it is done (a problem to solve admits a control      *)
(* sequence, any other step is enabled), and takes its steps in the order  *)
(* idle,                                                                   *)
(* then per iteration build, solve, extract, append, update, each once,    *)
(* for Len(Xcs) - N_PRED iterations, and then returns the codes.  Every    *)
(* step advances (j, position in the pass), so the call ends.              *)
C17_IdleRunningDone ==
    /\ [](run.failed_solves = {} =>
            /\ run.pc # "failed"
            /\ \/ run.pc = "done"
               \/ run.pc = "solve" /\ ControlSeqs(run.prob) # {}
               \/ run.pc # "solve" /\ ENABLED Next)
    /\ [][run'.failed_solves = {} => C17_StepOrder]_vars

(* C17, witness: a call of MPC_BIN that is done after two iterations in    *)
(* which every solve returned a solution.                                  *)
C17_Witness ==
    /\ run.pc = "done"
    /\ inp.self.enc = "BIN"
    /\ run.failed_solves = {}
    /\ Len(inp.Xcs) - inp.N_PRED = 2
    /\ run.appended_at = <<0, 1>>
    /\ run.updates = 2

(* The plant state of a call with locals r is zero when its loop begins,  *)
(* and the problem of an iteration has x_0 equal to the plant state.       *)
C18_StateOf(r) ==
    /\ (r.pc = "loop" /\ r.j = 0) => r.init_state = 0
    /\ (r.pc \in {"solve", "extract", "commit", "update"}) => r.prob.x0 = r.init_state

(* C18: in the first and in the second call on an object, the plant state  *)
(* is zero at the start of the loop, whatever state the earlier call ended *)
(* with, and in every iteration x_0 of the horizon problem is the current  *)
(* plant state.                                                            *)
C18_ZeroInitialState == C18_StateOf(run) /\ C18_StateOf(twin)

(* C18, witness: the first call ended with a nonzero plant state, and the  *)
(* second call has built the problem of its second iteration from its own  *)
(* nonzero state.                                                          *)
C18_Witness ==
    /\ run.pc = "done"
    /\ run.init_state # 0
    /\ twin.pc = "solve"
    /\ twin.j = 1
    /\ twin.prob.x0 # 0
    /\ twin.prob.x0 # run.init_state

(* C19: state_prediction(st, dev) is A*st + B*dev; the deviation the       *)
(* problem uses at step i is the level assumed for u_i minus X[j+i]; each  *)
(* planned state x[i+1] of the committed plan is state_prediction of x[i]  *)
(* and that deviation; and when the realized level of the committed code   *)
(* is the assumed one, the updated plant state is the planned x[1].        *)
C19_PlanFollowsStatePrediction ==
    /\ (run.pc = "idle") =>
           \A st \in -2..2 : \A dev \in -2..2 :
               state_prediction(inp.self, st, dev) = inp.self.A * st + inp.self.B * dev
    /\ (run.pc = "update") =>
           /\ \A k \in 1..inp.N_PRED :
                  /\ Con(run.prob, run.C_MPC, k) =
                        (IF inp.self.enc = "INT" THEN 2 * run.C_MPC[k]
                         ELSE run.QL_I[run.C_MPC[k] + 1]) - run.X[run.j + k]
                  /\ StateAt(run.prob, run.C_MPC, k) =
                        state_prediction(inp.self, StateAt(run.prob, run.C_MPC, k - 1),
                                         Con(run.prob, run.C_MPC, k))
           /\ (RealizedLevel(inp, run, run.C_MPC[1]) = run.prob.lvl[run.C_MPC[1] + 1]) =>
                  NextState(inp, run) = StateAt(run.prob, run.C_MPC, 1)

(* C19, witness: an update of MPC_BIN with N = 2 whose realized level is   *)
(* the assumed one and whose planned states x[1] and x[2] are not zero.    *)
C19_Witness ==
    /\ run.pc = "update"
    /\ inp.self.enc = "BIN"
    /\ inp.N_PRED = 2
    /\ RealizedLevel(inp, run, run.C_MPC[1]) = run.prob.lvl[run.C_MPC[1] + 1]
    /\ StateAt(run.prob, run.C_MPC, 1) # 0
    /\ StateAt(run.prob, run.C_MPC, 2) # 0
    /\ NextState(inp, run) = StateAt(run.prob, run.C_MPC, 1)

(* The codes whose indicator of horizon step i is reported as 1. *)
IndicatorsSet(i) ==
    { c \in Codes(inp.self.Nb) : run.values[c * inp.N_PRED + i] = Float(1, 0) }

(* C20 (MPC_BIN): every problem to solve admits a control sequence; and    *)
(* after a solve that returned a solution, for every horizon step exactly  *)
(* one indicator is 1 and the code decoded for the step is the index of    *)
(* that indicator.                                                         *)
C20_DecodedCodeIsTheIndicator ==
    (inp.self.enc = "BIN") =>
        /\ (run.pc = "solve") => ControlSeqs(run.prob) # {}
        /\ (run.pc = "update" /\ run.sol.status = "OPTIMAL") =>
               \A i \in 1..inp.N_PRED :
                   \E c \in Codes(inp.self.Nb) :
                       /\ IndicatorsSet(i) = {c}
                       /\ run.C_MPC[i] = c

(* C21: nothing but the plant state and the code sequence passes from one   *)
(* iteration to the next.  The problem being solved is the one built in    *)
(* this iteration from the current plant state and the window at j, and    *)
(* the code committed in an iteration is decoded from the solution values  *)
(* that this iteration's solve returned, never from values of an earlier   *)
(* iteration.                                                              *)
C21_OnlyStateAndCodesCarriedOver ==
    /\ (run.pc \in {"solve", "extract"}) =>
           run.prob = HorizonProblem(inp.self, inp.N_PRED, run.init_state,
                                     run.X, run.j, run.QL_I)
    /\ (run.pc = "update") =>
           /\ run.sol.status = "OPTIMAL"
           /\ run.values = run.sol.X
           /\ run.C_MPC = DecodeControls(inp.self, inp.N_PRED, run.sol.X)

(* C22: get_codes changes none of its inputs: the fields Nb, Qstep, QMODEL, *)
(* A, B, C, D of the object, the caller's reference sequence and the two   *)
(* level tables keep their values in every step of the call.               *)
C22_InputsUnchanged == [][inp' = inp]_vars

(* C22, witness: a finished call that returned codes and whose scaled      *)
(* reference and scaled tables differ from the arrays the caller passed.   *)
C22_Witness ==
    /\ run.pc = "done"
    /\ Len(run.C) >= 1
    /\ run.X # inp.Xcs
    /\ ConfiguredTable # inp.YQns
    /\ ConfiguredTable # inp.MLns

(* The same call with the other level table selected. *)
OtherModel(i) == [i EXCEPT !.self.QMODEL = 3 - @]

(* C23: one level table per run.  After any number of updates the plant    *)
(* state is the one obtained by applying every committed code through the  *)
(* table QMODEL selects (the scaled ideal table for 1, the scaled measured *)
(* table for 2), the same table in all iterations.                         *)
C23_OneTablePerRun ==
    (run.pc # "idle") =>
        /\ run.updates <= Len(run.C)
        /\ run.init_state = ReplayState(inp, run.C, run.updates)
        /\ (inp.self.enc = "INT") => run.QLS = TableOf(inp)

(* C23, witness: a finished call with QMODEL = 2 and two updates whose     *)
(* plant state differs from the one the ideal table would give, in the     *)
(* last update alone or in both.                                           *)
C23_Witness ==
    /\ run.pc = "done"
    /\ inp.self.QMODEL = 2
    /\ run.updates = 2
    /\ run.init_state # ReplayState(OtherModel(inp), run.C, 2)
    /\ ReplayState(inp, run.C, 1) # ReplayState(OtherModel(inp), run.C, 1)

(* C24: the code sequence is append-only.  While iteration j runs, up to   *)
(* its commit, the sequence holds j codes and j updates of the plant state *)
(* were made; the commit of iteration j adds one code at the end and       *)
(* leaves the earlier codes as they are; no other step changes the         *)
(* sequence; when the iteration completes with its update, the number of   *)
(* updates again equals the number of codes.                               *)
C24_AppendOnly ==
    [][ /\ (run'.pc \in {"loop", "solve", "extract", "commit"}) =>
              /\ Len(run'.C) = run'.j
              /\ run'.updates = Len(run'.C)
        /\ (run.pc = "commit" /\ run'.pc = "update") =>
              /\ Len(run'.C) = run.j + 1
              /\ SubSeq(run'.C, 1, run.j) = run.C
              /\ run'.appended_at = Append(run.appended_at, run.j)
        /\ (run.pc # "commit" \/ run'.pc # "update") => run'.C = run.C
        /\ (run'.pc = "done") => run'.updates = Len(run'.C)
      ]_vars

(* C24, witness: a finished call that appended two different codes and     *)
(* made two updates.                                                       *)
C24_Witness ==
    /\ run.pc = "done"
    /\ Len(run.C) = 2
    /\ run.C[1] # run.C[2]
    /\ run.updates = 2
    /\ run.appended_at = <<0, 1>>

(* The control sequence of the solution the last solve returned: the       *)
(* integers the reported values stand for (MPC), the indicators that are 1 *)
(* (MPC_BIN).                                                              *)
SolutionControls ==
    IF inp.self.enc = "INT"
    THEN [i \in 1..inp.N_PRED |-> run.sol.X[i][1]]
    ELSE [i \in 1..inp.N_PRED |->
            CHOOSE c \in Codes(inp.self.Nb) :
                run.sol.X[c * inp.N_PRED + i] = Float(1, 0)]

(* C25: the problem plans with the assumed level of each code (the code    *)
(* itself in MPC, the scaled ideal table in MPC_BIN) whatever QMODEL is,   *)
(* and the update uses the table QMODEL selects; so after the update of an *)
(* iteration whose solve returned a solution, the plant state differs from *)
(* the state x_1 of that solution by B * (realized level - assumed level)  *)
(* of the committed code, and equals it when the two levels are equal.     *)
C25_StateDiffersByLevelError ==
    (run.pc = "loop" /\ run.updates >= 1 /\ run.sol.status = "OPTIMAL") =>
        LET c == Last(run.C)
            assumed == AssumedLevels(inp.self, q_scaling(inp.self, inp.YQns))
            planned == StateAt(run.prob, SolutionControls, 1)
        IN  /\ run.prob.lvl = assumed
            /\ run.init_state - planned
                   = inp.self.B * (ConfiguredTable[c + 1] - assumed[c + 1])
            /\ (ConfiguredTable[c + 1] = assumed[c + 1]) => run.init_state = planned

(* C26: with L reference samples and horizon N, 1 <= N <= L, every index   *)
(* j + i (i = 0..N-1) read in iteration j is in 0..L-1 and the window of   *)
(* the problem is X[j .. j+N-1]; the iterations that committed a code are  *)
(* 0, 1, 2, ... in this order, so consecutive windows start at consecutive *)
(* indices; and when the call returns, the samples that were not the       *)
(* current sample of an iteration are exactly the last N.                  *)
C26_WindowWithinReference ==
    LET L == Len(inp.Xcs)
        N == inp.N_PRED
    IN  /\ (run.pc \in {"solve", "extract", "commit", "update"}) =>
               \A i \in 0..(N - 1) :
                   /\ run.j + i \in 0..(L - 1)
                   /\ run.prob.ref[i + 1] = q_scaling(inp.self, inp.Xcs)[run.j + i + 1]
        /\ \A k \in 1..Len(run.appended_at) : run.appended_at[k] = k - 1
        /\ (run.pc = "done" /\ N <= L) =>
               (0..(L - 1)) \ { run.appended_at[k] : k \in 1..Len(run.appended_at) }
                   = (L - N)..(L - 1)

(* C26, witness: a finished call with horizon 2 on four samples whose      *)
(* iterations 0 and 1 committed a code; samples 2 and 3 never were the     *)
(* current sample.                                                         *)
C26_Witness ==
    /\ run.pc = "done"
    /\ inp.N_PRED = 2
    /\ Len(inp.Xcs) = 4
    /\ run.appended_at = <<0, 1>>
    /\ inp.Xcs[3] # inp.Xcs[2]

(* The two references agree on their first n samples. *)
AgreeUpTo(n) ==
    \A k \in 1..n : k <= Len(inp.Xcs) => inp.Xcs[k] = inp2.Xcs[k]

(* C27: causality.  For two calls that differ in the reference only and a  *)
(* deterministic solver: if the references agree on samples 0..k+N-1, the  *)
(* codes at positions 0..k are the same in both calls, and so is the plant *)
(* state after iteration k.                                                *)
C27_Causality ==
    /\ \A k \in 0..(Len(run.C) - 1) :
           (k < Len(twin.C) /\ AgreeUpTo(k + inp.N_PRED)) => run.C[k + 1] = twin.C[k + 1]
    /\ ( /\ run.pc = "loop"
         /\ twin.pc = "loop"
         /\ twin.j = run.j
         /\ run.j >= 1
         /\ AgreeUpTo(run.j - 1 + inp.N_PRED) )
       => twin.init_state = run.init_state

(* C27, witness: two finished calls whose references agree on the samples *)
(* 0..N-1 and differ in the sample at index N, with the same code at       *)
(* position 0 and different codes at position 1.                           *)
C27_Witness ==
    /\ run.pc = "done"
    /\ twin.pc = "done"
    /\ Len(run.C) >= 2
    /\ Len(twin.C) >= 2
    /\ AgreeUpTo(inp.N_PRED)
    /\ inp.Xcs[1 + inp.N_PRED] # inp2.Xcs[1 + inp.N_PRED]
    /\ run.C[1] = twin.C[1]
    /\ run.C[2] # twin.C[2]

(* C28: a call whose horizon N is at least the number L of reference       *)
(* samples builds and solves no problem, makes no update of the plant      *)
(* state and does not fail: after its start it can only return, and what   *)
(* it returns is the empty code sequence.                                  *)
C28_ShortReferenceGivesNoCodes ==
    (inp.N_PRED >= Len(inp.Xcs) /\ run.pc # "idle") =>
        /\ run.pc \in {"loop", "done"}
        /\ run.len_MPC <= 0
        /\ run.C = <<>>
        /\ run.updates = 0
        /\ run.j = 0
        /\ run.sol = NoSolution
        /\ run.failed_solves = {}
        /\ (run.pc = "loop") => (ENABLED ReturnStep /\ ~ENABLED BuildStep)

(* C28, witness: a returned call with N > L, whose len_MPC is negative,    *)
(* and one with N = L.                                                     *)
C28_Witness ==
    /\ run.pc = "done"
    /\ run.C = <<>>
    /\ \/ inp.N_PRED > Len(inp.Xcs) /\ run.len_MPC < 0 /\ inp.self.enc = "INT"
       \/ inp.N_PRED = Len(inp.Xcs) /\ run.len_MPC = 0 /\ inp.self.enc = "BIN"

(* C29: with QMODEL neither 1 nor 2, a call with at least one iteration    *)
(* (L > N) never returns: it stays in iteration 0, makes no update of the  *)
(* plant state, goes on until it fails, and the step after the commit can  *)
(* only fail; no level of either table is read.                            *)
C29_UnknownModelFails ==
    (inp.self.QMODEL \notin {1, 2} /\ Len(inp.Xcs) > inp.N_PRED) =>
        /\ run.pc # "done"
        /\ run.j = 0
        /\ run.updates = 0
        /\ run.init_state = 0
        /\ Len(run.C) <= 1
        /\ (run.pc = "solve") => ControlSeqs(run.prob) # {}
        /\ (run.pc \notin {"solve", "failed"}) => ENABLED Next
        /\ (inp.self.enc = "INT" /\ run.pc # "idle") => ~run.QLS_bound

(* C29, witness: a call with QMODEL = 3 that solved its first problem,     *)
(* appended a code and then failed.                                        *)
C29_Witness ==
    /\ inp.self.QMODEL = 3
    /\ Len(inp.Xcs) > inp.N_PRED
    /\ run.pc = "failed"
    /\ run.sol.status = "OPTIMAL"
    /\ Len(run.C) = 1
    /\ run.updates = 0

(* C30 (integer encoding): when the solver reports for u_0 a value within  *)
(* the integrality tolerance of the integer k it selected, the code        *)
(* appended, and used for the level look-up of the update, is k.           *)
C30_CommittedCodeIsSelectedInteger ==
    (inp.self.enc = "INT" /\ run.pc = "update") =>
        \E k \in Codes(inp.self.Nb) : \E d \in Deviations :
            /\ run.sol.X[1] = Float(k, d)
            /\ Last(run.C) = k
            /\ run.C_MPC[1] = k

====
